---- MODULE Spec2Model ----
(***************************************************************************)
(* Outbox event log of node-pg-listen: the cursor mode of                  *)
(* examples/level-2-custom-multi-consumer (Consumer.run with the event and *)
(* consumer repositories) and the exclusive-claim mode of                  *)
(* examples/level-1-listen-notify-persistence (stream, batch), the         *)
(* repository methods called on their own, the CronBackoff scheduler,      *)
(* store errors and process crashes during a tick, and the Redis stream    *)
(* mirror of examples/level-3-redis-stream.                                *)
(*                                                                         *)
(* Every `await db.query(...)` of the source is one atomic step of the     *)
(* store; code between two awaits that touches only locals is folded into  *)
(* the step that precedes it.                                              *)
(***************************************************************************)
EXTENDS Integers, Sequences, FiniteSets, TLC

\* Number of rows the producers insert (createUsers inserts 26).
MaxEvents == 2

\* Number of times the work for one event is counted before the Redis-stream
\* consumer is stopped.
MaxWork == 2

\* Consumer.BATCH_SIZE, 1000 in the source, scaled down so that LIMIT cuts a scan.
BATCH_SIZE == 2

Ids == 1..MaxEvents

\* Consumer names of the example (index.js: john and alice).
Names == {"john", "alice"}

\* Run-loop instances (Consumer objects). Each is started by a process of its
\* own, at any time: j1 and j2 are two instances of john, a1 is alice.
\* index.js starts john and alice together, the case where both constructors
\* run before the first tick. jb is john with its ticks scheduled by the
\* CronBackoff of index.js instead of arriving at any time; jc is a second
\* invocation of that john's run(), started by a tick of the same CronBackoff
\* while the first is in flight.
Instances == {"j1", "j2", "a1", "jb", "jc"}

\* Every name driven by one instance, and the two racing instances of john.
Single == {"j1", "a1"}
Racing == {"j1", "j2"}

\* index.js: john is scheduled by a CronBackoff, alice by a plain cron.
Scheduled == {"jb", "a1"}

NameOf(i) == IF i = "a1" THEN "alice" ELSE "john"

\* The pg.Client of the process that runs instance i; both invocations of the
\* scheduled john use the client of their process.
ConnOf(i) == IF i = "jc" THEN "jb" ELSE i

\* Invocations of stream() in flight. w1 and w2 run in one process and share its
\* db client; w3 runs in a second process with a client of its own.
Workers == {"w1", "w2", "w3"}

Procs == {"p1", "p2"}

ProcOf(w) == IF w = "w3" THEN "p2" ELSE "p1"

\* db.js: each process creates one pg.Client.
ClientOf(w) == IF w = "w3" THEN "c2" ELSE "c1"

Conns == {"c1", "c2"}

NoConn == "none"
NoRow == [checkpoint |-> -1, topics |-> {}]

\* What run() returns: false from an idle tick, otherwise the row count of
\* truncate(); NoValue before the first return.
NoValue == [is |-> "none", n |-> 0]
False == [is |-> "false", n |-> 0]
Count(k) == [is |-> "count", n |-> k]

\* JavaScript truthiness of a value returned by run().
Truthy(v) == v.is = "count" /\ v.n > 0

\* No repository method has been called directly.
NoCall == [op |-> "none", arg |-> 0, kind |-> "value", val |-> 0, topics |-> {}]

\* event column of the rows createUsers inserts.
EventName == "person_created"

\* Values of consumer.topics: the column default and a subscription that
\* excludes the events of createUsers.
TopicSets == {{"*"}, {"order_created"}}

\* Topic names a consumer row may hold, and the event types a checker is asked
\* about: a subscribed one, another one, one nobody subscribes to, and "*".
Topics == {"*", "person_created", "order_created"}
EventTypes == <<"person_created", "order_created", "person_deleted", "*">>

\* Length of ExponentialBackoff.durations, 10 in the source, scaled down.
TableLen == 3

\* Number of cron ticks of the CronBackoff that are followed.
MaxTime == 7

\* The cron of CronBackoff fires every second ("* * * * * *"); times are in ms.
TickPeriod == 1000

\* Math.random() sampled at 0, 1/4, 1/2 and 3/4.
RandomQuarters == 0..3

VARIABLES
  nextId,                \* identity sequence of event.id
  eventTable,            \* id -> "free" | "pending" | "visible" | "deleted"
  consumerTable,         \* name -> row of table consumer, or NoRow
  rowLock,               \* name -> connection holding the FOR UPDATE row lock
  pc,                    \* instance -> position in Consumer.run
  consumer,              \* instance -> the row returned by upsert in run()
  events,                \* instance -> rows returned by findAll
  lastCheckpoint,        \* instance -> local lastCheckpoint of run()
  minCheckpointToClear,  \* instance -> value read by minCheckpoint()
  done,                  \* instance -> number of events of the batch accounted for
  owed                   \* <<name, id>>: the row of name existed when event id
                         \* committed and id was not yet handed to name (history)

\* Exclusive-claim mode (stream)
VARIABLES
  notif,                 \* process -> ids of notifications received, not yet dispatched
  tx,                    \* connection -> "idle" | "open" | "aborted" transaction block
  evLock,                \* id -> connection whose transaction holds the row lock
  txDeleted,             \* connection -> ids deleted by its open transaction
  wpc,                   \* worker -> position in stream()
  arg,                   \* worker -> event?.id of the call, 0 when called without event
  storedEvent,           \* worker -> id of rows[0], 0 when there is none
  err,                   \* worker -> the error caught by stream()
  lastId,                \* worker -> local lastId of batch()
  handled                \* ids of the events a handler has processed (history)

\* Direct calls of the repository methods
VARIABLES
  ret                    \* the last repository call and what it returned

\* CronBackoff driving the consumer john
VARIABLES
  attempts,              \* backoff.attempts
  triggeredAt,           \* CronBackoff.triggeredAt
  now,                   \* Date.now(), in seconds
  cronState,             \* "waiting" for a tick | "running" the work function
  executed               \* what the last fn() awaited by the callback returned

\* examples/level-3-redis-stream: the log mirrored to a Redis stream
VARIABLES
  mystream,              \* the Redis stream STREAM_KEY: event ids in entry order
  sendPc,                \* position in sendEventToRedisStream
  sendEvents,            \* its const events, the rows returned by findAll
  added,                 \* how many of them the loop has passed to xadd
  sendLastEventId,       \* its let lastEventId
  redisConsumer,         \* the row of john in table consumer
  consumePc,             \* position in redisConsumerGroup
  lastEventId,           \* its let lastEventId
  lastRedisId,           \* its let lastRedisId; 0 stands for "-"
  performed              \* id -> how often "performing work" was logged for it

cursorVars == <<consumerTable, rowLock, pc, consumer, events,
                lastCheckpoint, minCheckpointToClear, done, owed>>

claimVars == <<notif, tx, evLock, txDeleted, wpc, arg, storedEvent, err,
               lastId, handled>>

backoffVars == <<attempts, triggeredAt, now, cronState, executed>>

redisVars == <<mystream, sendPc, sendEvents, added, sendLastEventId,
               redisConsumer, consumePc, lastEventId, lastRedisId, performed>>

\* What no statement of stream() touches.
notStream == <<cursorVars, ret, backoffVars, lastId>>

vars == <<nextId, eventTable, cursorVars, claimVars, ret, backoffVars, redisVars>>

locals == <<consumer, events, lastCheckpoint, minCheckpointToClear, done>>

----------------------------------------------------------------------------
\* Helpers

Min2(a, b) == IF a <= b THEN a ELSE b

SetMin(S) == CHOOSE m \in S : \A x \in S : m <= x

\* Sequences over S of length n without repetition.
Arrangements(S, n) ==
  {s \in [1..n -> S] : \A a, b \in 1..n : a # b => s[a] # s[b]}

Visible == {id \in Ids : eventTable[id] = "visible"}

Registered == {n \in Names : consumerTable[n] # NoRow}

\* createTopicChecker without the wildcard test (topics.has(topic) only).
checkTopicExact(topics, topic) == topic \in topics

\* createTopicChecker: allTopics || topics.has(topic)
checkTopic(topics, topic) == ("*" \in topics) \/ (topic \in topics)

\* ExponentialBackoff.durations: Math.pow(2, i) * 1000 for i = 0..length-1.
durations == [i \in 0..(TableLen - 1) |-> (2 ^ i) * 1000]

\* duration with the index into the table not clamped (2^attempts seconds).
durationUnclamped(r) ==
  LET d == (2 ^ attempts) * 1000
  IN  (d \div 2) + ((r * d) \div 4)

\* ExponentialBackoff.duration with Math.random() = r/4:
\* Math.floor(duration / 2 + Math.random() * duration), where duration is
\* durations[Math.min(attempts, durations.length - 1)].
duration(r) ==
  LET d == durations[Min2(attempts, TableLen - 1)]
  IN  (d \div 2) + ((r * d) \div 4)

\* findAll with the cursor condition dropped (SELECT * FROM event LIMIT $2).
findAllNoCursor(checkpoint, limit) ==
  Arrangements(Visible, Min2(limit, Cardinality(Visible)))

\* EventRepository.findAll: SELECT * FROM event WHERE id > $1 LIMIT $2.
\* The statement has no ORDER BY, so the store may return any LIMIT-sized
\* choice of the matching rows in any order.
findAll(checkpoint, limit) ==
  LET matching == {id \in Visible : id > checkpoint}
  IN  Arrangements(matching, Min2(limit, Cardinality(matching)))

\* ConsumerRepository.minCheckpoint: SELECT min(checkpoint) FROM consumer.
minCheckpoint == SetMin({consumerTable[n].checkpoint : n \in Registered})

\* truncate with the bound excluded (DELETE FROM event WHERE id < $1).
truncateBelow(checkpoint) ==
  [id \in Ids |-> IF eventTable[id] = "visible" /\ id < checkpoint
                  THEN "deleted" ELSE eventTable[id]]

\* EventRepository.truncate: DELETE FROM event WHERE id <= $1.
truncate(checkpoint) ==
  [id \in Ids |-> IF eventTable[id] = "visible" /\ id <= checkpoint
                  THEN "deleted" ELSE eventTable[id]]

\* EventRepository.truncate: return result.rowCount, the rows the DELETE matched.
truncateCount(checkpoint) ==
  Cardinality({id \in Ids : eventTable[id] = "visible" /\ id <= checkpoint})

\* ConsumerRepository.minCheckpoint as its caller sees it:
\* BigInt(result.rows?.[0].checkpoint). min() over no rows is one row holding
\* NULL, and BigInt(null) throws a TypeError.
minCheckpointResult ==
  IF Registered = {}
  THEN [op |-> "minCheckpoint", arg |-> 0, kind |-> "error", val |-> 0,
        topics |-> {}]
  ELSE [op |-> "minCheckpoint", arg |-> 0, kind |-> "value", val |-> minCheckpoint,
        topics |-> {}]

\* upsert with the conflict branch resetting the row
\* (ON CONFLICT(name) DO UPDATE SET checkpoint = 0).
upsertReset(name) ==
  [consumerTable EXCEPT ![name] = [checkpoint |-> 0, topics |-> {"*"}]]

\* ConsumerRepository.upsert: INSERT ... ON CONFLICT(name) DO UPDATE SET updated_at.
upsert(name) ==
  IF consumerTable[name] = NoRow
  THEN [consumerTable EXCEPT ![name] = [checkpoint |-> 0, topics |-> {"*"}]]
  ELSE consumerTable

----------------------------------------------------------------------------
Init ==
  /\ nextId = 1
  /\ eventTable = [id \in Ids |-> "free"]
  /\ consumerTable = [n \in Names |-> NoRow]
  /\ rowLock = [n \in Names |-> NoConn]
  /\ pc = [i \in Instances |-> "idle"]
  /\ consumer = [i \in Instances |-> NoRow]
  /\ events = [i \in Instances |-> <<>>]
  /\ lastCheckpoint = [i \in Instances |-> 0]
  /\ minCheckpointToClear = [i \in Instances |-> 0]
  /\ done = [i \in Instances |-> 0]
  /\ owed = {}
  /\ notif = [p \in Procs |-> {}]
  /\ tx = [c \in Conns |-> "idle"]
  /\ evLock = [id \in Ids |-> NoConn]
  /\ txDeleted = [c \in Conns |-> {}]
  /\ wpc = [w \in Workers |-> "idle"]
  /\ arg = [w \in Workers |-> 0]
  /\ storedEvent = [w \in Workers |-> 0]
  /\ err = [w \in Workers |-> "none"]
  /\ lastId = [w \in Workers |-> 0]
  /\ handled = {}
  /\ ret = NoCall
  /\ attempts = 0
  /\ triggeredAt = 0
  /\ now = 0
  /\ cronState = "waiting"
  /\ executed = NoValue
  /\ mystream = <<>>
  /\ sendPc = "idle"
  /\ sendEvents = <<>>
  /\ added = 0
  /\ sendLastEventId = 0
  /\ redisConsumer = [last_event_id |-> 0, last_redis_id |-> 0]
  /\ consumePc = "idle"
  /\ lastEventId = 0
  /\ lastRedisId = 0
  /\ performed = [id \in Ids |-> 0]

\* createUsers: the INSERT of the CTE draws the next identity value; the row
\* is not visible to other sessions before the statement's transaction commits.
InsertEvent ==
  /\ nextId <= MaxEvents
  /\ eventTable' = [eventTable EXCEPT ![nextId] = "pending"]
  /\ nextId' = nextId + 1
  /\ UNCHANGED <<consumerTable, rowLock, pc, locals, owed>>
  /\ UNCHANGED <<claimVars, ret, backoffVars, redisVars>>

\* Commit of a producer's statement: the row becomes visible.
CommitEvent(id) ==
  /\ eventTable[id] = "pending"
  /\ eventTable' = [eventTable EXCEPT ![id] = "visible"]
  /\ owed' = owed \cup {<<n, id>> : n \in Registered}
  /\ UNCHANGED <<nextId, consumerTable, rowLock, pc, locals>>
  /\ UNCHANGED <<claimVars, ret, backoffVars, redisVars>>

\* An operator of the store narrows or widens a consumer's subscription.
SetTopics(n, ts) ==
  /\ consumerTable[n] # NoRow
  /\ rowLock[n] = NoConn
  /\ consumerTable[n].topics # ts
  /\ consumerTable' = [consumerTable EXCEPT ![n].topics = ts]
  /\ UNCHANGED <<nextId, eventTable, rowLock, pc, locals, owed>>
  /\ UNCHANGED <<claimVars, ret, backoffVars, redisVars>>

\* Consumer constructor: this.consumerRepository.upsert(name), not awaited.
\* On an existing row it only refreshes updated_at.
Construct(i) ==
  /\ consumerTable[NameOf(i)] = NoRow
  /\ consumerTable' = upsert(NameOf(i))
  /\ UNCHANGED <<nextId, eventTable, rowLock, pc, locals, owed>>
  /\ UNCHANGED <<claimVars, ret, backoffVars, redisVars>>

\* run() of instance i returns. For the instance scheduled by CronBackoff the
\* callback resumes: executed ? this.backoff.reset() : this.backoff.increment();
\* this.triggeredAt = Date.now(); the value returned to a plain cron is dropped.
Return(i, v) ==
  IF i \in {"jb", "jc"}
  THEN /\ executed' = v
       /\ attempts' = IF Truthy(v) THEN 0 ELSE attempts + 1
       /\ triggeredAt' = now
       /\ cronState' = IF i = "jb" THEN "waiting" ELSE cronState
       /\ UNCHANGED now
  ELSE UNCHANGED backoffVars

\* run(): const consumer = await this.consumerRepository.upsert(this.name);
\*        let lastCheckpoint = consumer.checkpoint;
RunUpsert(i) ==
  /\ pc[i] = "idle"
  /\ rowLock[NameOf(i)] \in {NoConn, ConnOf(i)}
  /\ consumerTable' = upsert(NameOf(i))
  /\ consumer' = [consumer EXCEPT ![i] = consumerTable'[NameOf(i)]]
  /\ lastCheckpoint' = [lastCheckpoint EXCEPT ![i] = consumerTable'[NameOf(i)].checkpoint]
  /\ pc' = [pc EXCEPT ![i] = "upserted"]
  /\ UNCHANGED <<nextId, eventTable, rowLock, events, minCheckpointToClear,
                 done, owed>>
  /\ UNCHANGED <<claimVars, ret, backoffVars, redisVars>>

\* run() with an idle tick that goes on to truncate before it returns.
RunFindAllTruncating(i) ==
  /\ pc[i] = "upserted"
  /\ \E rows \in findAll(lastCheckpoint[i], BATCH_SIZE) :
       IF Len(rows) = 0
       THEN /\ pc' = [pc EXCEPT ![i] = "idle"]
            /\ lastCheckpoint' = [lastCheckpoint EXCEPT ![i] = 0]
            /\ eventTable' = truncate(lastCheckpoint[i])
            /\ Return(i, False)
            /\ UNCHANGED <<events, done, owed>>
       ELSE \E n \in 0..Len(rows) :
            /\ UNCHANGED <<backoffVars, eventTable>>
            /\ n < Len(rows) => checkTopic(consumer[i].topics, EventName)
            /\ events' = [events EXCEPT ![i] = rows]
            /\ done' = [done EXCEPT ![i] = n]
            /\ lastCheckpoint' = [lastCheckpoint EXCEPT ![i] =
                                    IF n = 0 THEN @ ELSE rows[n]]
            /\ owed' = owed \ {<<NameOf(i), rows[k]>> : k \in 1..Min2(n + 1, Len(rows))}
            /\ pc' = [pc EXCEPT ![i] = "processed"]
  /\ consumer' = [consumer EXCEPT ![i] = NoRow]
  /\ UNCHANGED <<nextId, consumerTable, rowLock, minCheckpointToClear>>
  /\ UNCHANGED <<claimVars, ret, redisVars>>

\* run(): const events = await findAll(lastCheckpoint, BATCH_SIZE);
\*        if (!events.length) return false;
\*        for await (let event of events) { ... lastCheckpoint = event.id ... }
\* n events of the batch are accounted for (processed or topic-skipped); if
\* n < events.length the processing of event n+1 threw and the loop broke there.
\* After the loop only consumer.name is read, so the local row is dropped.
RunFindAll(i) ==
  /\ pc[i] = "upserted"
  /\ \E rows \in findAll(lastCheckpoint[i], BATCH_SIZE) :
       IF Len(rows) = 0
       THEN /\ pc' = [pc EXCEPT ![i] = "idle"]
            /\ lastCheckpoint' = [lastCheckpoint EXCEPT ![i] = 0]
            /\ Return(i, False)
            /\ UNCHANGED <<events, done, owed>>
       ELSE \E n \in 0..Len(rows) :
            /\ UNCHANGED backoffVars
            /\ n < Len(rows) => checkTopic(consumer[i].topics, EventName)
            /\ events' = [events EXCEPT ![i] = rows]
            /\ done' = [done EXCEPT ![i] = n]
            /\ lastCheckpoint' = [lastCheckpoint EXCEPT ![i] =
                                    IF n = 0 THEN @ ELSE rows[n]]
            /\ owed' = owed \ {<<NameOf(i), rows[k]>> : k \in 1..Min2(n + 1, Len(rows))}
            /\ pc' = [pc EXCEPT ![i] = "processed"]
  /\ consumer' = [consumer EXCEPT ![i] = NoRow]
  /\ UNCHANGED <<nextId, eventTable, consumerTable, rowLock, minCheckpointToClear>>
  /\ UNCHANGED <<claimVars, ret, redisVars>>

\* updateLastCheckpoint: BEGIN; SELECT * FROM consumer WHERE name = $1 FOR UPDATE
\* (waits while another connection holds the row lock).
RunLock(i) ==
  /\ pc[i] = "processed"
  /\ rowLock[NameOf(i)] \in {NoConn, ConnOf(i)}
  /\ rowLock' = [rowLock EXCEPT ![NameOf(i)] = ConnOf(i)]
  /\ pc' = [pc EXCEPT ![i] = "locked"]
  /\ UNCHANGED <<nextId, eventTable, consumerTable, locals, owed>>
  /\ UNCHANGED <<claimVars, ret, backoffVars, redisVars>>

\* updateLastCheckpoint: UPDATE consumer SET checkpoint = $1 WHERE name = $2; COMMIT.
RunUpdateLastCheckpoint(i) ==
  /\ pc[i] = "locked"
  /\ consumerTable' = [consumerTable EXCEPT ![NameOf(i)].checkpoint = lastCheckpoint[i]]
  /\ rowLock' = [n \in Names |-> IF rowLock[n] = ConnOf(i) THEN NoConn ELSE rowLock[n]]
  /\ pc' = [pc EXCEPT ![i] = "updated"]
  /\ UNCHANGED <<nextId, eventTable, locals, owed>>
  /\ UNCHANGED <<claimVars, ret, backoffVars, redisVars>>

\* run(): const minCheckpointToClear = await this.consumerRepository.minCheckpoint();
RunMinCheckpoint(i) ==
  /\ pc[i] = "updated"
  /\ minCheckpointToClear' = [minCheckpointToClear EXCEPT ![i] = minCheckpoint]
  /\ pc' = [pc EXCEPT ![i] = "min"]
  /\ UNCHANGED <<nextId, eventTable, consumerTable, rowLock, consumer, events,
                 lastCheckpoint, done, owed>>
  /\ UNCHANGED <<claimVars, ret, backoffVars, redisVars>>

\* run(): const truncated = await this.eventRepository.truncate(minCheckpointToClear);
\*        return truncated;
RunTruncate(i) ==
  /\ pc[i] = "min"
  /\ eventTable' = truncate(minCheckpointToClear[i])
  /\ pc' = [pc EXCEPT ![i] = "idle"]
  /\ events' = [events EXCEPT ![i] = <<>>]
  /\ lastCheckpoint' = [lastCheckpoint EXCEPT ![i] = 0]
  /\ minCheckpointToClear' = [minCheckpointToClear EXCEPT ![i] = 0]
  /\ done' = [done EXCEPT ![i] = 0]
  /\ Return(i, Count(truncateCount(minCheckpointToClear[i])))
  /\ UNCHANGED <<nextId, consumerTable, rowLock, consumer, owed>>
  /\ UNCHANGED <<claimVars, ret, redisVars>>

----------------------------------------------------------------------------
\* The repository methods called directly, one call at a time

\* consumerRepository.upsert(name): RETURNING *, the row as it is after the
\* statement (val is its checkpoint).
ApiUpsert(n) ==
  /\ consumerTable' = upsert(n)
  /\ ret' = [op |-> "upsert", arg |-> 0, kind |-> "value",
             val |-> consumerTable'[n].checkpoint,
             topics |-> consumerTable'[n].topics]
  /\ UNCHANGED <<nextId, eventTable, rowLock, pc, locals, owed>>
  /\ UNCHANGED <<claimVars, backoffVars, redisVars>>

\* updateLastCheckpoint writing the row with an upsert
\* (INSERT ... ON CONFLICT(name) DO UPDATE SET checkpoint = $1).
ApiUpdateLastCheckpointUpsert(n, v) ==
  /\ rowLock[n] = NoConn
  /\ consumerTable' = IF consumerTable[n] = NoRow
                      THEN [consumerTable EXCEPT ![n] = [checkpoint |-> v, topics |-> {"*"}]]
                      ELSE [consumerTable EXCEPT ![n].checkpoint = v]
  /\ ret' = [op |-> "updateLastCheckpoint", arg |-> v, kind |-> "value",
             val |-> 1, topics |-> {}]
  /\ UNCHANGED <<nextId, eventTable, rowLock, pc, locals, owed>>
  /\ UNCHANGED <<claimVars, backoffVars, redisVars>>

\* consumerRepository.updateLastCheckpoint(name, checkpoint):
\* return result.rowCount > 0 (val 1 for true, 0 for false).
ApiUpdateLastCheckpoint(n, v) ==
  /\ rowLock[n] = NoConn
  /\ consumerTable' = IF consumerTable[n] = NoRow THEN consumerTable
                      ELSE [consumerTable EXCEPT ![n].checkpoint = v]
  /\ ret' = [op |-> "updateLastCheckpoint", arg |-> v, kind |-> "value",
             val |-> IF consumerTable[n] = NoRow THEN 0 ELSE 1, topics |-> {}]
  /\ UNCHANGED <<nextId, eventTable, rowLock, pc, locals, owed>>
  /\ UNCHANGED <<claimVars, backoffVars, redisVars>>

\* consumerRepository.minCheckpoint()
ApiMinCheckpoint ==
  /\ ret' = minCheckpointResult
  /\ UNCHANGED <<nextId, eventTable, consumerTable, rowLock, pc, locals, owed>>
  /\ UNCHANGED <<claimVars, backoffVars, redisVars>>

\* eventRepository.truncate(checkpoint)
ApiTruncate(w) ==
  /\ eventTable' = truncate(w)
  /\ ret' = [op |-> "truncate", arg |-> w, kind |-> "value", val |-> truncateCount(w),
             topics |-> {}]
  /\ UNCHANGED <<nextId, consumerTable, rowLock, pc, locals, owed>>
  /\ UNCHANGED <<claimVars, backoffVars, redisVars>>

\* this.createTopicChecker(consumer)(topic) for the stored row of n and the
\* k-th event type (val 1 for true, 0 for false).
ApiCheckTopic(n, k) ==
  /\ consumerTable[n] # NoRow
  /\ ret' = [op |-> "checkTopic", arg |-> k, kind |-> "value",
             val |-> IF checkTopic(consumerTable[n].topics, EventTypes[k]) THEN 1 ELSE 0,
             topics |-> consumerTable[n].topics]
  /\ UNCHANGED <<nextId, eventTable, consumerTable, rowLock, pc, locals, owed>>
  /\ UNCHANGED <<claimVars, backoffVars, redisVars>>

\* Topic checkers built from consumer rows with any subscription.
NextTopic ==
  \/ \E n \in Names : ApiUpsert(n)
  \/ \E n \in Names, ts \in SUBSET Topics : SetTopics(n, ts)
  \/ \E n \in Names, k \in 1..Len(EventTypes) : ApiCheckTopic(n, k)

SpecTopic == Init /\ [][NextTopic]_vars

NextRepo ==
  \/ InsertEvent
  \/ \E id \in Ids : CommitEvent(id)
  \/ \E n \in Names : ApiUpsert(n)
  \/ \E n \in Names, v \in 0..MaxEvents : ApiUpdateLastCheckpoint(n, v)
  \/ ApiMinCheckpoint
  \/ \E w \in 0..MaxEvents : ApiTruncate(w)

SpecRepo == Init /\ [][NextRepo]_vars

\* The methods of ConsumerRepository called directly while events are
\* published and subscriptions are changed.
NextConsumerRepo ==
  \/ InsertEvent
  \/ \E id \in Ids : CommitEvent(id)
  \/ \E n \in Names, ts \in TopicSets : SetTopics(n, ts)
  \/ \E n \in Names : ApiUpsert(n)
  \/ \E n \in Names, v \in 0..MaxEvents : ApiUpdateLastCheckpoint(n, v)
  \/ ApiMinCheckpoint

SpecConsumerRepo == Init /\ [][NextConsumerRepo]_vars

----------------------------------------------------------------------------
\* Exclusive-claim mode: stream() of level-1-listen-notify-persistence

\* Rows a statement on connection c sees: committed and not deleted by c's
\* own open transaction.
VisibleTo(c) == {id \in Ids : eventTable[id] = "visible" /\ id \notin txDeleted[c]}

\* Rows whose lock connection c may take at once.
Lockable(c) == {id \in VisibleTo(c) : evLock[id] \in {NoConn, c}}

\* A row lock taken inside a transaction block is held until the block ends;
\* outside a block it is gone when the statement ends.
LockedBy(c, id) ==
  IF tx[c] = "open" THEN [evLock EXCEPT ![id] = c] ELSE evLock

\* Locks left after the transaction block of c ends.
Released(c) == [id \in Ids |-> IF evLock[id] = c THEN NoConn ELSE evLock[id]]

\* Table event after COMMIT on connection c.
Committed(c) ==
  [id \in Ids |-> IF tx[c] = "open" /\ id \in txDeleted[c] /\ eventTable[id] = "visible"
                  THEN "deleted" ELSE eventTable[id]]

\* createUsers in the level-1 program: the commit makes the row visible and
\* pg_notify('person_created', ...) reaches every listening process.
CommitNotify(id) ==
  /\ eventTable[id] = "pending"
  /\ eventTable' = [eventTable EXCEPT ![id] = "visible"]
  /\ notif' = [p \in Procs |-> notif[p] \cup {id}]
  /\ UNCHANGED <<nextId, notStream, handled, tx, evLock, txDeleted, wpc, arg, storedEvent, err,
                 redisVars>>

\* await db.query("BEGIN"), the first statement of stream(): opens a transaction
\* block on the client; inside an open block it only raises a warning; in an
\* aborted block it fails (25P02) and stream() enters its catch block.
Begin(w) ==
  IF tx[ClientOf(w)] = "aborted"
  THEN /\ err' = [err EXCEPT ![w] = "25P02"]
       /\ wpc' = [wpc EXCEPT ![w] = "catch"]
       /\ UNCHANGED tx
  ELSE /\ tx' = [tx EXCEPT ![ClientOf(w)] = "open"]
       /\ wpc' = [wpc EXCEPT ![w] = "select"]
       /\ UNCHANGED err

\* db.on("notification", ...): stream(event) with the event of the payload.
StreamNotified(w, id) ==
  /\ wpc[w] = "idle"
  /\ id \in notif[ProcOf(w)]
  /\ notif' = [notif EXCEPT ![ProcOf(w)] = @ \ {id}]
  /\ arg' = [arg EXCEPT ![w] = id]
  /\ Begin(w)
  /\ UNCHANGED <<nextId, eventTable, notStream, handled, evLock, txDeleted, storedEvent,
                 redisVars>>

\* The periodic sweep: stream() without an event.
StreamSweep(w) ==
  /\ wpc[w] = "idle"
  /\ arg' = [arg EXCEPT ![w] = 0]
  /\ Begin(w)
  /\ UNCHANGED <<nextId, eventTable, notStream, handled, notif, evLock, txDeleted, storedEvent,
                 redisVars>>

\* A statement sent while the transaction block is aborted fails (25P02) and
\* stream() enters its catch block.
Fail25P02(w) ==
  /\ tx[ClientOf(w)] = "aborted"
  /\ err' = [err EXCEPT ![w] = "25P02"]
  /\ wpc' = [wpc EXCEPT ![w] = "catch"]
  /\ UNCHANGED <<nextId, eventTable, notStream, handled, notif, tx, evLock, txDeleted,
                 arg, storedEvent, redisVars>>

\* SELECT * FROM event WHERE id = $1 LIMIT 1 FOR UPDATE NOWAIT
claimTargeted(w) ==
  LET c == ClientOf(w)
      id == arg[w]
  IN  IF id \notin VisibleTo(c)
      THEN \* no row: storedEvent is undefined
           /\ wpc' = [wpc EXCEPT ![w] = "empty"]
           /\ UNCHANGED <<tx, evLock, storedEvent, err>>
      ELSE IF evLock[id] \notin {NoConn, c}
      THEN \* could not obtain lock on row (55P03)
           /\ err' = [err EXCEPT ![w] = "55P03"]
           /\ tx' = [tx EXCEPT ![c] = IF @ = "open" THEN "aborted" ELSE @]
           /\ wpc' = [wpc EXCEPT ![w] = "catch"]
           /\ UNCHANGED <<evLock, storedEvent>>
      ELSE /\ evLock' = LockedBy(c, id)
           /\ storedEvent' = [storedEvent EXCEPT ![w] = id]
           /\ wpc' = [wpc EXCEPT ![w] = "claimed"]
           /\ UNCHANGED <<tx, err>>

\* SELECT * FROM event ORDER BY id LIMIT 1 FOR UPDATE SKIP LOCKED
claimAny(w) ==
  LET c == ClientOf(w)
  IN  IF Lockable(c) = {}
      THEN /\ wpc' = [wpc EXCEPT ![w] = "empty"]
           /\ UNCHANGED <<tx, evLock, storedEvent, err>>
      ELSE /\ evLock' = LockedBy(c, SetMin(Lockable(c)))
           /\ storedEvent' = [storedEvent EXCEPT ![w] = SetMin(Lockable(c))]
           /\ wpc' = [wpc EXCEPT ![w] = "claimed"]
           /\ UNCHANGED <<tx, err>>

\* const { rows } = await db.query(event?.id ? [targeted] : [skip locked]);
\* const storedEvent = rows?.[0];
Select(w) ==
  /\ wpc[w] = "select"
  /\ IF tx[ClientOf(w)] = "aborted"
     THEN Fail25P02(w)
     ELSE /\ IF arg[w] # 0 THEN claimTargeted(w) ELSE claimAny(w)
          /\ UNCHANGED <<nextId, eventTable, notStream, handled, notif, txDeleted, arg,
                 redisVars>>

\* COMMIT or ROLLBACK on connection c with the table left as tbl.
EndBlock(c, tbl) ==
  /\ eventTable' = tbl
  /\ txDeleted' = [txDeleted EXCEPT ![c] = {}]
  /\ evLock' = Released(c)
  /\ tx' = [tx EXCEPT ![c] = "idle"]

\* if (!storedEvent) { await db.query("COMMIT"); return; }
CommitEmpty(w) ==
  /\ wpc[w] = "empty"
  /\ EndBlock(ClientOf(w), Committed(ClientOf(w)))
  /\ wpc' = [wpc EXCEPT ![w] = "idle"]
  /\ arg' = [arg EXCEPT ![w] = 0]
  /\ UNCHANGED <<nextId, notStream, handled, notif, storedEvent, err, redisVars>>

\* await handle(event): the handler returns or throws. It is passed the
\* argument of stream(), which is undefined in a call without an event.
Handle(w) ==
  /\ wpc[w] = "claimed"
  /\ \/ /\ wpc' = [wpc EXCEPT ![w] = "delete"]
        /\ handled' = handled \cup ({arg[w]} \ {0})
        /\ UNCHANGED err
     \/ /\ wpc' = [wpc EXCEPT ![w] = "catch"]
        /\ err' = [err EXCEPT ![w] = "handler"]
        /\ UNCHANGED handled
  /\ UNCHANGED <<nextId, eventTable, notStream, notif, tx, evLock, txDeleted,
                 arg, storedEvent, redisVars>>

\* await db.query("DELETE FROM event WHERE id = $1", [storedEvent.id]);
\* The statement waits while another connection holds the row lock.
Delete(w) ==
  /\ wpc[w] = "delete"
  /\ LET c == ClientOf(w)
         id == storedEvent[w]
     IN  IF tx[c] = "aborted"
         THEN Fail25P02(w)
         ELSE /\ id \in VisibleTo(c) => evLock[id] \in {NoConn, c}
              /\ IF id \notin VisibleTo(c)
                 THEN UNCHANGED <<eventTable, evLock, txDeleted>>
                 ELSE IF tx[c] = "open"
                 THEN /\ txDeleted' = [txDeleted EXCEPT ![c] = @ \cup {id}]
                      /\ evLock' = [evLock EXCEPT ![id] = c]
                      /\ UNCHANGED eventTable
                 ELSE /\ eventTable' = [eventTable EXCEPT ![id] = "deleted"]
                      /\ UNCHANGED <<evLock, txDeleted>>
              /\ wpc' = [wpc EXCEPT ![w] = "commit"]
              /\ UNCHANGED <<nextId, notStream, handled, notif, tx, arg, storedEvent, err,
                 redisVars>>

\* await db.query("COMMIT"); the call returns.
Commit(w) ==
  /\ wpc[w] = "commit"
  /\ EndBlock(ClientOf(w), Committed(ClientOf(w)))
  /\ wpc' = [wpc EXCEPT ![w] = "idle"]
  /\ arg' = [arg EXCEPT ![w] = 0]
  /\ storedEvent' = [storedEvent EXCEPT ![w] = 0]
  /\ UNCHANGED <<nextId, notStream, handled, notif, err, redisVars>>

\* catch (e) { await db.query("ROLLBACK"); throw e; }
\* The call ends by rethrowing the caught error to its caller.
Rollback(w) ==
  /\ wpc[w] = "catch"
  /\ EndBlock(ClientOf(w), eventTable)
  /\ wpc' = [wpc EXCEPT ![w] = "idle"]
  /\ arg' = [arg EXCEPT ![w] = 0]
  /\ storedEvent' = [storedEvent EXCEPT ![w] = 0]
  /\ err' = [err EXCEPT ![w] = "none"]
  /\ UNCHANGED <<nextId, notStream, handled, notif, redisVars>>

NextClaim ==
  \/ InsertEvent
  \/ \E id \in Ids : CommitNotify(id)
  \/ \E w \in Workers, id \in Ids : StreamNotified(w, id)
  \/ \E w \in Workers : StreamSweep(w)
  \/ \E w \in Workers : Select(w)
  \/ \E w \in Workers : CommitEmpty(w)
  \/ \E w \in Workers : Handle(w)
  \/ \E w \in Workers : Delete(w)
  \/ \E w \in Workers : Commit(w)
  \/ \E w \in Workers : Rollback(w)

\* The level-1 program run by two processes.
SpecClaim == Init /\ [][NextClaim]_vars

\* handle(event) returns.
HandleOk(w) == Handle(w) /\ wpc'[w] = "delete"

\* The scheduler keeps calling stream(), every statement sent is answered, and
\* a handler that is retried eventually returns.
FairSweep ==
  /\ \A w \in Workers : WF_vars(StreamSweep(w))
  /\ \A w \in Workers : WF_vars(Select(w))
  /\ \A w \in Workers : WF_vars(CommitEmpty(w))
  /\ \A w \in Workers : SF_vars(HandleOk(w))
  /\ \A w \in Workers : WF_vars(Delete(w))
  /\ \A w \in Workers : WF_vars(Commit(w))
  /\ \A w \in Workers : WF_vars(Rollback(w))

SpecSweep == Init /\ [][NextClaim]_vars /\ FairSweep

----------------------------------------------------------------------------
\* batch() of level-1-listen-notify-persistence, the task its cron runs

\* Rows connection c must wait for: locked by a transaction of another connection.
LockedElsewhere(c, S) == {id \in S : evLock[id] \notin {NoConn, c}}

\* Locks after connection c locked the rows S.
LockedAll(c, S) ==
  IF tx[c] = "open"
  THEN [id \in Ids |-> IF id \in S THEN c ELSE evLock[id]]
  ELSE evLock

\* A statement of batch() sent while the transaction block is aborted fails
\* (25P02) and batch() enters its catch block.
BatchFail25P02(w) ==
  /\ err' = [err EXCEPT ![w] = "25P02"]
  /\ wpc' = [wpc EXCEPT ![w] = "bcatch"]
  /\ UNCHANGED <<nextId, eventTable, cursorVars, ret, backoffVars, notif, tx,
                 evLock, txDeleted, arg, storedEvent, lastId, handled,
                 redisVars>>

\* cron.schedule("*/3 * * * * *", () => { batch(); }): let lastId = 0;
\* await db.query("BEGIN");
BatchStart(w) ==
  /\ wpc[w] = "idle"
  /\ IF tx[ClientOf(w)] = "aborted"
     THEN BatchFail25P02(w)
     ELSE /\ tx' = [tx EXCEPT ![ClientOf(w)] = "open"]
          /\ wpc' = [wpc EXCEPT ![w] = "bselect"]
          /\ UNCHANGED <<nextId, eventTable, cursorVars, ret, backoffVars, notif,
                         evLock, txDeleted, arg, storedEvent, err, lastId, handled,
                         redisVars>>

\* SELECT * FROM event ORDER BY id LIMIT 1000 FOR UPDATE: the statement waits
\* ("bwait") while a row it selects is locked by another connection.
\* for (let event of events) { await handle(event); lastId = event.id; }
\* handle returns for the first n events; if n < events.length it throws for
\* event n+1. handle is synchronous, so the loop runs before the result of any
\* other query is delivered and is folded into this step.
BatchSelect(w) ==
  /\ wpc[w] \in {"bselect", "bwait"}
  /\ LET c == ClientOf(w)
         rows == VisibleTo(c)
     IN  IF tx[c] = "aborted"
         THEN BatchFail25P02(w)
         ELSE IF LockedElsewhere(c, rows) # {}
         THEN /\ wpc[w] = "bselect"
              /\ wpc' = [wpc EXCEPT ![w] = "bwait"]
              /\ UNCHANGED <<nextId, eventTable, cursorVars, ret, backoffVars,
                             notif, tx, evLock, txDeleted, arg, storedEvent, err,
                             lastId, handled, redisVars>>
         ELSE /\ evLock' = LockedAll(c, rows)
              /\ \E n \in 0..Cardinality(rows) :
                   LET done_ == {id \in rows : Cardinality({j \in rows : j <= id}) <= n}
                   IN  /\ handled' = handled \cup done_
                       /\ IF n = Cardinality(rows)
                          THEN /\ lastId' = [lastId EXCEPT ![w] =
                                               IF rows = {} THEN 0
                                               ELSE CHOOSE m \in rows : \A x \in rows : x <= m]
                               /\ wpc' = [wpc EXCEPT ![w] = "bdelete"]
                               /\ UNCHANGED err
                          ELSE /\ err' = [err EXCEPT ![w] = "handler"]
                               /\ wpc' = [wpc EXCEPT ![w] = "bcatch"]
                               /\ UNCHANGED lastId
              /\ UNCHANGED <<nextId, eventTable, cursorVars, ret, backoffVars,
                             notif, tx, txDeleted, arg, storedEvent, redisVars>>

\* await db.query(`DELETE FROM event WHERE id <= $1`, [lastId]);
\* The statement waits while another connection holds the lock of a row it deletes.
BatchDelete(w) ==
  /\ wpc[w] = "bdelete"
  /\ LET c == ClientOf(w)
         rows == {id \in VisibleTo(c) : id <= lastId[w]}
     IN  IF tx[c] = "aborted"
         THEN BatchFail25P02(w)
         ELSE /\ LockedElsewhere(c, rows) = {}
              /\ IF tx[c] = "open"
                 THEN /\ txDeleted' = [txDeleted EXCEPT ![c] = @ \cup rows]
                      /\ evLock' = LockedAll(c, rows)
                      /\ UNCHANGED eventTable
                 ELSE /\ eventTable' = [id \in Ids |-> IF id \in rows THEN "deleted"
                                                       ELSE eventTable[id]]
                      /\ UNCHANGED <<evLock, txDeleted>>
              /\ wpc' = [wpc EXCEPT ![w] = "bcommit"]
              /\ UNCHANGED <<nextId, cursorVars, ret, backoffVars, notif, tx, arg,
                             storedEvent, err, lastId, handled, redisVars>>

\* await db.query("COMMIT"); batch() returns.
BatchCommit(w) ==
  /\ wpc[w] = "bcommit"
  /\ EndBlock(ClientOf(w), Committed(ClientOf(w)))
  /\ wpc' = [wpc EXCEPT ![w] = "idle"]
  /\ lastId' = [lastId EXCEPT ![w] = 0]
  /\ UNCHANGED <<nextId, cursorVars, ret, backoffVars, notif, arg, storedEvent,
                 err, handled, redisVars>>

\* catch (error) { await db.query("ROLLBACK"); console.log(...); }
\* batch() returns without rethrowing.
BatchRollback(w) ==
  /\ wpc[w] = "bcatch"
  /\ EndBlock(ClientOf(w), eventTable)
  /\ wpc' = [wpc EXCEPT ![w] = "idle"]
  /\ lastId' = [lastId EXCEPT ![w] = 0]
  /\ err' = [err EXCEPT ![w] = "none"]
  /\ UNCHANGED <<nextId, cursorVars, ret, backoffVars, notif, arg, storedEvent,
                 handled, redisVars>>

\* The level-1 program as written, run by two processes: notifications call
\* stream(event), the cron calls batch().
NextBatch ==
  \/ InsertEvent
  \/ \E id \in Ids : CommitNotify(id)
  \/ \E w \in Workers, id \in Ids : StreamNotified(w, id)
  \/ \E w \in Workers : Select(w)
  \/ \E w \in Workers : CommitEmpty(w)
  \/ \E w \in Workers : Handle(w)
  \/ \E w \in Workers : Delete(w)
  \/ \E w \in Workers : Commit(w)
  \/ \E w \in Workers : Rollback(w)
  \/ \E w \in Workers : BatchStart(w)
  \/ \E w \in Workers : BatchSelect(w)
  \/ \E w \in Workers : BatchDelete(w)
  \/ \E w \in Workers : BatchCommit(w)
  \/ \E w \in Workers : BatchRollback(w)

SpecBatch == Init /\ [][NextBatch]_vars

----------------------------------------------------------------------------
\* Redis stream mirror (examples/level-3-redis-stream)

\* Entries of a stream, as a set of event ids.
Range(q) == {q[k] : k \in 1..Len(q)}

\* EventStore.findAll: SELECT * FROM event LIMIT $1 with the default limit of
\* 10000, far above the size of the table; no ORDER BY, so the rows come in
\* any order.
eventStoreFindAll == Arrangements(Visible, Cardinality(Visible))

\* const events = await eventStore.findAll(); let lastEventId = 0;
SendFindAll ==
  /\ sendPc = "idle"
  /\ \E rows \in eventStoreFindAll :
       /\ sendEvents' = rows
       /\ sendPc' = IF Len(rows) = 0 THEN "truncate" ELSE "xadd"
  /\ added' = 0
  /\ sendLastEventId' = 0
  /\ UNCHANGED <<nextId, eventTable, cursorVars, claimVars, ret, backoffVars,
                 mystream, redisConsumer, consumePc, lastEventId, lastRedisId,
                 performed>>

\* One pass of the loop: await redis.xadd(STREAM_KEY, "*", "id", event.id)
\* appends the entry and lastEventId = event.id; when xadd rejects, the catch
\* block logs the error and breaks out of the loop.
SendXadd ==
  /\ sendPc = "xadd"
  /\ LET event == sendEvents[added + 1]
     IN  \/ /\ mystream' = Append(mystream, event)
            /\ sendLastEventId' = event
            /\ added' = added + 1
            /\ sendPc' = IF added' = Len(sendEvents) THEN "truncate" ELSE "xadd"
         \/ /\ sendPc' = "truncate"
            /\ UNCHANGED <<mystream, sendLastEventId, added>>
  /\ UNCHANGED <<nextId, eventTable, cursorVars, claimVars, ret, backoffVars,
                 sendEvents, redisConsumer, consumePc, lastEventId, lastRedisId,
                 performed>>

\* await eventStore.truncate(lastEventId): DELETE FROM event WHERE id <= $1.
SendTruncate ==
  /\ sendPc = "truncate"
  /\ eventTable' = truncate(sendLastEventId)
  /\ sendPc' = "idle"
  /\ sendEvents' = <<>>
  /\ added' = 0
  /\ sendLastEventId' = 0
  /\ UNCHANGED <<nextId, cursorVars, claimVars, ret, backoffVars, mystream,
                 redisConsumer, consumePc, lastEventId, lastRedisId, performed>>

\* redisConsumerGroup: const consumer = await consumerStore.upsert("john");
\* let lastEventId = consumer.last_event_id;
\* let lastRedisId = consumer.last_redis_id || "-";
\* The row starts with the column defaults, last_event_id 0 and last_redis_id ''.
ConsumeUpsert ==
  /\ consumePc = "idle"
  /\ \A id \in Ids : performed[id] < MaxWork
  /\ lastEventId' = redisConsumer.last_event_id
  /\ lastRedisId' = redisConsumer.last_redis_id
  /\ consumePc' = "xrange"
  /\ UNCHANGED <<nextId, eventTable, cursorVars, claimVars, ret, backoffVars,
                 mystream, sendPc, sendEvents, added, sendLastEventId,
                 redisConsumer, performed>>

\* redis.xrange(STREAM_KEY, lastRedisId, "+", "COUNT", 1000): the entries from
\* lastRedisId on, that entry included; "-" is the start of the stream.
xrange(start) ==
  [k \in (IF start = 0 THEN 1 ELSE start)..Len(mystream) |-> mystream[k]]

\* The forEach of the earlier example (event.id < lastEventId is skipped).
\* The result is the locals after the entries from k on, and the work logged.
RECURSIVE forEachStrict(_, _, _, _)
forEachStrict(k, eventId, redisId, work) ==
  IF k > Len(mystream)
  THEN [lastEventId |-> eventId, lastRedisId |-> redisId, performed |-> work]
  ELSE IF mystream[k] < eventId
  THEN forEachStrict(k + 1, eventId, redisId, work)
  ELSE forEachStrict(k + 1, mystream[k], k,
                     [work EXCEPT ![mystream[k]] = @ + 1])

\* records.forEach of level-3: an entry with event.id <= lastEventId is
\* skipped; for any other entry the work is performed and lastRedisId,
\* lastEventId are set to the entry's.
RECURSIVE forEach(_, _, _, _)
forEach(k, eventId, redisId, work) ==
  IF k > Len(mystream)
  THEN [lastEventId |-> eventId, lastRedisId |-> redisId, performed |-> work]
  ELSE IF mystream[k] <= eventId
  THEN forEach(k + 1, eventId, redisId, work)
  ELSE forEach(k + 1, mystream[k], k, [work EXCEPT ![mystream[k]] = @ + 1])

\* const records = await redis.xrange(...); records.forEach(...); when xrange
\* rejects, the catch block logs the error and the call ends.
ConsumeRecords ==
  /\ consumePc = "xrange"
  /\ \/ LET after == forEach(IF lastRedisId = 0 THEN 1 ELSE lastRedisId,
                            lastEventId, lastRedisId, performed)
        IN  /\ lastEventId' = after.lastEventId
            /\ lastRedisId' = after.lastRedisId
            /\ performed' = after.performed
            /\ consumePc' = "persist"
     \/ /\ consumePc' = "idle"
        /\ lastEventId' = 0
        /\ lastRedisId' = 0
        /\ UNCHANGED performed
  /\ UNCHANGED <<nextId, eventTable, cursorVars, claimVars, ret, backoffVars,
                 mystream, sendPc, sendEvents, added, sendLastEventId,
                 redisConsumer>>

\* await consumerStore.updateLastCheckpoint(consumerName, lastEventId,
\* lastRedisId): BEGIN, SELECT ... FOR UPDATE, UPDATE consumer SET
\* last_event_id = $1, last_redis_id = $2, COMMIT. When a statement fails the
\* store rolls back and rethrows, and redisConsumerGroup logs the error.
ConsumePersist ==
  /\ consumePc = "persist"
  /\ \/ redisConsumer' = [last_event_id |-> lastEventId,
                          last_redis_id |-> lastRedisId]
     \/ UNCHANGED redisConsumer
  /\ consumePc' = "idle"
  /\ lastEventId' = 0
  /\ lastRedisId' = 0
  /\ UNCHANGED <<nextId, eventTable, cursorVars, claimVars, ret, backoffVars,
                 mystream, sendPc, sendEvents, added, sendLastEventId, performed>>

\* index.js of level-3: createUsers, and the two crons calling
\* sendEventToRedisStream and redisConsumerGroup.
NextRedis ==
  \/ InsertEvent
  \/ \E id \in Ids : CommitEvent(id)
  \/ SendFindAll
  \/ SendXadd
  \/ SendTruncate
  \/ ConsumeUpsert
  \/ ConsumeRecords
  \/ ConsumePersist

SpecRedis == Init /\ [][NextRedis]_vars

\* redisConsumerGroup of the earlier Redis-stream example, which differs from
\* level-3 in the test of its forEach.
ConsumeRecordsStrict ==
  /\ consumePc = "xrange"
  /\ \/ LET after == forEachStrict(IF lastRedisId = 0 THEN 1 ELSE lastRedisId,
                                  lastEventId, lastRedisId, performed)
        IN  /\ lastEventId' = after.lastEventId
            /\ lastRedisId' = after.lastRedisId
            /\ performed' = after.performed
            /\ consumePc' = "persist"
     \/ /\ consumePc' = "idle"
        /\ lastEventId' = 0
        /\ lastRedisId' = 0
        /\ UNCHANGED performed
  /\ UNCHANGED <<nextId, eventTable, cursorVars, claimVars, ret, backoffVars,
                 mystream, sendPc, sendEvents, added, sendLastEventId,
                 redisConsumer>>

\* The earlier Redis-stream example: the same producers and crons.
NextRedisStream ==
  \/ InsertEvent
  \/ \E id \in Ids : CommitEvent(id)
  \/ SendFindAll
  \/ SendXadd
  \/ SendTruncate
  \/ ConsumeUpsert
  \/ ConsumeRecordsStrict
  \/ ConsumePersist

SpecRedisStream == Init /\ [][NextRedisStream]_vars

----------------------------------------------------------------------------
NextOf(I) ==
  \/ InsertEvent
  \/ \E id \in Ids : CommitEvent(id)
  \/ \E n \in Names, ts \in TopicSets : SetTopics(n, ts)
  \/ \E i \in I : Construct(i)
  \/ \E i \in I : RunUpsert(i)
  \/ \E i \in I : RunFindAll(i)
  \/ \E i \in I : RunLock(i)
  \/ \E i \in I : RunUpdateLastCheckpoint(i)
  \/ \E i \in I : RunMinCheckpoint(i)
  \/ \E i \in I : RunTruncate(i)

\* The consumers john and alice, one instance each.
Next == NextOf(Single)

Spec == Init /\ [][Next]_vars

\* The process running instance i dies in the middle of a tick: the locals of
\* run() are gone and the store rolls back the transaction its connection had
\* open, which releases the row lock.
Crash(i) ==
  /\ pc[i] \notin {"idle", "crashed"}
  /\ pc' = [pc EXCEPT ![i] = "crashed"]
  /\ rowLock' = [n \in Names |-> IF rowLock[n] = ConnOf(i) THEN NoConn ELSE rowLock[n]]
  /\ consumer' = [consumer EXCEPT ![i] = NoRow]
  /\ events' = [events EXCEPT ![i] = <<>>]
  /\ lastCheckpoint' = [lastCheckpoint EXCEPT ![i] = 0]
  /\ minCheckpointToClear' = [minCheckpointToClear EXCEPT ![i] = 0]
  /\ done' = [done EXCEPT ![i] = 0]
  /\ UNCHANGED <<nextId, eventTable, consumerTable, owed>>
  /\ UNCHANGED <<claimVars, ret, backoffVars, redisVars>>

\* The process is started again: new Consumer(name, ...) upserts the row, which
\* exists, and the next tick calls run().
Restart(i) ==
  /\ pc[i] = "crashed"
  /\ consumerTable' = upsert(NameOf(i))
  /\ pc' = [pc EXCEPT ![i] = "idle"]
  /\ UNCHANGED <<nextId, eventTable, rowLock, locals, owed>>
  /\ UNCHANGED <<claimVars, ret, backoffVars, redisVars>>

\* john and alice, each in a process that may crash and be restarted.
NextCrash ==
  \/ Next
  \/ \E i \in Single : Crash(i)
  \/ \E i \in Single : Restart(i)

SpecCrash == Init /\ [][NextCrash]_vars

\* Two instances of the consumer john.
NextRace == NextOf(Racing)

SpecRace == Init /\ [][NextRace]_vars

\* Tick with a suppressed tick restarting the window (triggeredAt = Date.now()).
TickRestamping ==
  /\ cronState = "waiting"
  /\ now < MaxTime * TickPeriod
  /\ now' = now + TickPeriod
  /\ \E r \in RandomQuarters :
       IF attempts > 0 /\ now' < duration(r) + triggeredAt
       THEN /\ attempts' = attempts + 1
            /\ triggeredAt' = now'
            /\ UNCHANGED cronState
       ELSE /\ cronState' = "running"
            /\ UNCHANGED <<attempts, triggeredAt>>
  /\ UNCHANGED <<nextId, eventTable, cursorVars, claimVars, ret, executed,
                 redisVars>>

\* CronBackoff.schedule: the callback of a cron tick, run while no earlier
\* invocation of the work function is in flight. While attempts > 0 and
\* Date.now() < this.backoff.duration + this.triggeredAt the tick only increments
\* attempts; otherwise it calls fn(), which is john.run().
Tick ==
  /\ cronState = "waiting"
  /\ now < MaxTime * TickPeriod
  /\ now' = now + TickPeriod
  /\ \E r \in RandomQuarters :
       IF attempts > 0 /\ now' < duration(r) + triggeredAt
       THEN /\ attempts' = attempts + 1
            /\ UNCHANGED <<triggeredAt, cronState>>
       ELSE /\ cronState' = "running"
            /\ UNCHANGED <<attempts, triggeredAt>>
  /\ UNCHANGED <<nextId, eventTable, cursorVars, claimVars, ret, executed,
                 redisVars>>

\* const executed = await fn(): the run() the tick called starts.
RunScheduled ==
  /\ cronState = "running"
  /\ RunUpsert("jb")

\* index.js: john.run() called by the CronBackoff, alice.run() by a cron.
NextBackoff ==
  \/ InsertEvent
  \/ \E id \in Ids : CommitEvent(id)
  \/ \E i \in Scheduled : Construct(i)
  \/ Tick
  \/ RunScheduled
  \/ RunUpsert("a1")
  \/ \E i \in Scheduled : RunFindAll(i)
  \/ \E i \in Scheduled : RunLock(i)
  \/ \E i \in Scheduled : RunUpdateLastCheckpoint(i)
  \/ \E i \in Scheduled : RunMinCheckpoint(i)
  \/ \E i \in Scheduled : RunTruncate(i)

SpecBackoff == Init /\ [][NextBackoff]_vars

\* john scheduled by the CronBackoff while alice, once constructed, is not
\* running (backgroundTask1 without backgroundTask2; index.js 33-35: "if one of
\* the consumer is not running, past events would never be deleted").
NextTicker ==
  \/ InsertEvent
  \/ \E id \in Ids : CommitEvent(id)
  \/ \E i \in Scheduled : Construct(i)
  \/ Tick
  \/ RunScheduled
  \/ RunFindAll("jb")
  \/ RunLock("jb")
  \/ RunUpdateLastCheckpoint("jb")
  \/ RunMinCheckpoint("jb")
  \/ RunTruncate("jb")

SpecTicker == Init /\ [][NextTicker]_vars

\* CronBackoff.schedule: the callback of a cron tick that fires while the
\* callback of an earlier tick is suspended at "await fn()". The callback holds
\* no flag for a call in flight: it evaluates the same test and, when the test
\* does not suppress the tick, calls fn() again; john.run() starts with its
\* upsert.
TickInFlight ==
  /\ cronState = "running"
  /\ pc["jc"] = "idle"
  /\ now < MaxTime * TickPeriod
  /\ now' = now + TickPeriod
  /\ \E r \in RandomQuarters :
       IF attempts > 0 /\ now' < duration(r) + triggeredAt
       THEN /\ attempts' = attempts + 1
            /\ UNCHANGED <<consumerTable, consumer, lastCheckpoint, pc>>
       ELSE /\ rowLock["john"] \in {NoConn, ConnOf("jc")}
            /\ consumerTable' = upsert("john")
            /\ consumer' = [consumer EXCEPT !["jc"] = consumerTable'["john"]]
            /\ lastCheckpoint' = [lastCheckpoint EXCEPT
                                    !["jc"] = consumerTable'["john"].checkpoint]
            /\ pc' = [pc EXCEPT !["jc"] = "upserted"]
            /\ UNCHANGED attempts
  /\ UNCHANGED <<nextId, eventTable, rowLock, events, minCheckpointToClear, done,
                 owed, claimVars, ret, triggeredAt, cronState, executed,
                 redisVars>>

\* john scheduled by the CronBackoff, with the ticks that fire while run() is
\* in flight.
NextOverlap ==
  \/ InsertEvent
  \/ \E id \in Ids : CommitEvent(id)
  \/ Construct("jb")
  \/ Tick
  \/ TickInFlight
  \/ RunScheduled
  \/ \E i \in {"jb", "jc"} : RunFindAll(i)
  \/ \E i \in {"jb", "jc"} : RunLock(i)
  \/ \E i \in {"jb", "jc"} : RunUpdateLastCheckpoint(i)
  \/ \E i \in {"jb", "jc"} : RunMinCheckpoint(i)
  \/ \E i \in {"jb", "jc"} : RunTruncate(i)

SpecOverlap == Init /\ [][NextOverlap]_vars

\* A query of run() is rejected by the store (connection or server error).
\* run() has no try/catch of its own: updateLastCheckpoint sends ROLLBACK and
\* rethrows, every other query error leaves run() directly, and the promise of
\* run() is rejected. In the CronBackoff callback `await fn()` then throws, so
\* the reset/increment and the assignment of triggeredAt after it are skipped.
RunFail(i) ==
  /\ \/ pc[i] # "idle"
     \/ i = "jb" /\ cronState = "running"
  /\ pc' = [pc EXCEPT ![i] = "idle"]
  /\ rowLock' = [n \in Names |-> IF rowLock[n] = ConnOf(i) THEN NoConn ELSE rowLock[n]]
  /\ consumer' = [consumer EXCEPT ![i] = NoRow]
  /\ events' = [events EXCEPT ![i] = <<>>]
  /\ lastCheckpoint' = [lastCheckpoint EXCEPT ![i] = 0]
  /\ minCheckpointToClear' = [minCheckpointToClear EXCEPT ![i] = 0]
  /\ done' = [done EXCEPT ![i] = 0]
  /\ IF i = "jb"
     THEN /\ cronState' = "waiting"
          /\ UNCHANGED <<attempts, triggeredAt, now, executed>>
     ELSE UNCHANGED backoffVars
  /\ UNCHANGED <<nextId, eventTable, consumerTable, owed>>
  /\ UNCHANGED <<claimVars, ret, redisVars>>

\* john scheduled by the CronBackoff against a store whose queries may fail.
NextFault ==
  \/ NextTicker
  \/ \E i \in Scheduled : RunFail(i)

SpecFault == Init /\ [][NextFault]_vars

\* The processing of every event of the batch succeeds.
RunFindAllOk(i) == RunFindAll(i) /\ done'[i] = Len(events'[i])

\* Every consumer of the program is registered and keeps being ticked, every
\* statement sent is answered, and processing that is retried eventually
\* succeeds.
FairRun ==
  /\ \A i \in Single : WF_vars(Construct(i))
  /\ \A i \in Single : WF_vars(RunUpsert(i))
  /\ \A i \in Single : SF_vars(RunFindAllOk(i))
  /\ \A i \in Single : WF_vars(RunLock(i))
  /\ \A i \in Single : WF_vars(RunUpdateLastCheckpoint(i))
  /\ \A i \in Single : WF_vars(RunMinCheckpoint(i))
  /\ \A i \in Single : WF_vars(RunTruncate(i))

SpecLive == Init /\ [][Next]_vars /\ FairRun

TypeOK ==
  /\ nextId \in 1..(MaxEvents + 1)
  /\ \A i \in Instances : Len(events[i]) <= BATCH_SIZE

----------------------------------------------------------------------------
\* Cursor mode: delivery, truncation and checkpoints

\* The step of instance i that runs the bulk DELETE of truncate().
IsTruncate(i) == pc[i] = "min" /\ pc'[i] = "idle"

\* The step of instance i that scans and iterates a non-empty batch.
IsBatch(i) == pc[i] = "upserted" /\ pc'[i] = "processed"

\* The step of instance i that commits the checkpoint write.
IsCheckpointWrite(i) == pc[i] = "locked" /\ pc'[i] = "updated"

\* C1: every event committed while a consumer's row existed is handed to that
\* consumer (or topic-skipped by it) before bulk truncation deletes it.
AtLeastOnceDelivery ==
  \A n \in Names, id \in Ids : <<n, id>> \in owed => eventTable[id] # "deleted"

\* C2: when truncate() runs its DELETE with watermark w, w is at most the
\* minimum checkpoint over the consumer rows that exist at that moment.
TruncationSafety ==
  [][\A i \in Instances : IsTruncate(i) => minCheckpointToClear[i] <= minCheckpoint]_vars

RowLockBlocksRace ==
  [][\A i \in Racing :
       IsCheckpointWrite(i) =>
         lastCheckpoint[i] >= consumerTable[NameOf(i)].checkpoint]_vars

\* C5: findAll(c, L) returns only events with id > c, in strictly ascending id
\* order without duplicates, and at most L of them.
ScanAscendingBounded ==
  [][\A i \in Instances :
       IsBatch(i) =>
         LET rows == events'[i]
             c == lastCheckpoint[i]
         IN  /\ \A k \in 1..Len(rows) : rows[k] > c
             /\ \A a, b \in 1..Len(rows) : a < b => rows[a] < rows[b]
             /\ Len(rows) <= BATCH_SIZE]_vars

\* C6: when a tick that started from checkpoint p settles on the checkpoint k
\* it will write, every event with p < id <= k that was in the log at scan
\* time has been processed or topic-skipped by that tick, in ascending id order.
CheckpointAccountsForAll ==
  [][\A i \in Instances :
       IsBatch(i) =>
         LET rows == events'[i]
             n == done'[i]
             p == lastCheckpoint[i]
             k == lastCheckpoint'[i]
         IN  /\ \A id \in Visible :
                  (p < id /\ id <= k) => \E j \in 1..n : rows[j] = id
             /\ \A a, b \in 1..n : a < b => rows[a] < rows[b]]_vars

----------------------------------------------------------------------------
\* Exclusive-claim mode: mutual exclusion and contention

\* Worker w is between a successful claim and its COMMIT or ROLLBACK.
Active(w) == storedEvent[w] # 0

\* The step in which stream() of worker w rethrows the error it caught.
IsRethrow(w) == wpc[w] = "catch" /\ wpc'[w] = "idle"

\* Untargeted invocations in flight.
Sweepers == {v \in Workers : wpc[v] # "idle" /\ arg[v] = 0}

\* The step in which worker w runs the untargeted claim.
IsClaimAny(w) == wpc[w] = "select" /\ arg[w] = 0 /\ wpc'[w] \in {"claimed", "empty"}

\* C7: at any instant at most one invocation of stream() is between a
\* successful claim and its COMMIT/ROLLBACK for a given event id.
ExclusiveClaim ==
  \A w \in Workers, v \in Workers :
    (w # v /\ Active(w)) => storedEvent[w] # storedEvent[v]

\* C8: of the targeted claims in flight for the same id, only one has acquired
\* the row.
TargetedClaimExclusive ==
  \A w \in Workers, v \in Workers :
    (w # v /\ arg[w] # 0 /\ arg[w] = arg[v]) =>
      ~(storedEvent[w] = arg[w] /\ storedEvent[v] = arg[v])

\* C9: a targeted claim that failed because the row is locked elsewhere ends
\* without surfacing an error to the caller of stream().
ContentionIsSilent ==
  [][\A w \in Workers : (arg[w] # 0 /\ err[w] = "55P03") => ~IsRethrow(w)]_vars

\* C10: while the log holds at least as many rows as there are untargeted
\* claims in flight, an untargeted claim obtains a row that no other untargeted
\* claim in flight has obtained, and it comes back empty only if every row is
\* locked.
OpportunisticDistinct ==
  [][\A w \in Workers :
       (IsClaimAny(w) /\ Cardinality(Visible) >= Cardinality(Sweepers)) =>
         /\ wpc'[w] = "claimed" =>
              \A v \in Workers \ {w} :
                (arg[v] = 0 /\ Active(v)) => storedEvent[v] # storedEvent'[w]
         /\ wpc'[w] = "empty" =>
              \A id \in Visible : evLock[id] # NoConn]_vars

\* C11: no claim operation ever waits for a row lock held by another
\* transaction: it acquires the row, fails at once, or skips it.
NoLockWait == \A w \in Workers : wpc[w] # "bwait"

\* The step in which worker w runs the DELETE of its claimed row.
IsDelete(w) == wpc[w] = "delete" /\ wpc'[w] = "commit"

\* The step in which worker w, whose handler threw, rolls back and rethrows.
IsHandlerFailure(w) == IsRethrow(w) /\ err[w] = "handler"

\* C12: stream() deletes its claimed row only after the handler returned and
\* only inside the open transaction that holds the lock of that row; when the
\* handler throws, after the ROLLBACK the row is still in the log and unlocked,
\* and the error is rethrown.
DeleteOnlyUnderClaim ==
  [][\A w \in Workers :
       /\ IsDelete(w) =>
            /\ tx[ClientOf(w)] = "open"
            /\ evLock[storedEvent[w]] = ClientOf(w)
       /\ IsHandlerFailure(w) =>
            /\ eventTable'[storedEvent[w]] = "visible"
            /\ evLock'[storedEvent[w]] = NoConn]_vars

\* C13: every event in the log is eventually handed to the handler and
\* deleted, by the sweep if not by its notification, when the sweep keeps being
\* scheduled and the handler eventually succeeds.
SweepEventuallyProcesses ==
  \A id \in Ids :
    (eventTable[id] = "visible") ~> (eventTable[id] = "deleted" /\ id \in handled)

----------------------------------------------------------------------------
\* Cursor mode: failures, topics, truncation

\* The batch of instance i stopped at a failing event after at least one
\* event was accounted for.
FailedMidBatch(i) == done[i] >= 1 /\ done[i] < Len(events[i])

\* C14: when processing fails after earlier events of the batch succeeded, the
\* checkpoint the tick writes is the id of the last event handled before the
\* failure and lies below the failing id, so that the next scan (id >
\* checkpoint) returns the failing event.
MidBatchFailureStops ==
  [][\A i \in Instances :
       (IsCheckpointWrite(i) /\ FailedMidBatch(i)) =>
         /\ consumerTable'[NameOf(i)].checkpoint = events[i][done[i]]
         /\ consumerTable'[NameOf(i)].checkpoint < events[i][done[i] + 1]]_vars

\* The batch step of instance i whose consumer row does not subscribe to the
\* events in the log.
IsSkippingBatch(i) == IsBatch(i) /\ ~checkTopic(consumer[i].topics, EventName)

\* C15: a batch of events that fail the topic filter is skipped as a whole,
\* none is handed to processing, and the tentative checkpoint ends at or above
\* the id of every skipped event, so that no later scan (id > checkpoint)
\* returns a skipped event again, whatever the topic set is by then.
TopicSkipIsPermanent ==
  [][\A i \in Instances :
       IsSkippingBatch(i) =>
         /\ done'[i] = Len(events'[i])
         /\ \A k \in 1..Len(events'[i]) : events'[i][k] <= lastCheckpoint'[i]]_vars

\* C16: called on a consumer table without rows, minCheckpoint() yields
\* undefined, neither a number nor an exception.
MinCheckpointEmptyIsUndefined ==
  (ret.op = "minCheckpoint" /\ Registered = {}) => ret.kind = "undefined"

\* C17: truncate(w) removes exactly the events of the log with id <= w and
\* returns their number: afterwards no event with id <= w is in the log, every
\* event above w is untouched, and a watermark of 0 (a consumer that never
\* ran) removes nothing.
TruncateUpToWatermark ==
  [][\A w \in 0..MaxEvents :
       ApiTruncate(w) =>
         LET removed == {id \in Ids : eventTable[id] = "visible" /\ eventTable'[id] = "deleted"}
         IN  /\ \A id \in Ids : id <= w => eventTable'[id] # "visible"
             /\ \A id \in Ids : id > w => eventTable'[id] = eventTable[id]
             /\ \A id \in Ids \ removed : eventTable'[id] = eventTable[id]
             /\ ret'.val = Cardinality(removed)
             /\ w = 0 => eventTable' = eventTable]_vars

\* C17 witness: john is the slowest consumer with checkpoint 1, alice has
\* reached 2; truncate(minCheckpoint()) removed event 1 and returned 1, event 2
\* survives.
TruncateUpToWatermarkWitness ==
  /\ consumerTable["john"].checkpoint = 1
  /\ consumerTable["alice"].checkpoint = 2
  /\ ret = [op |-> "truncate", arg |-> 1, kind |-> "value", val |-> 1, topics |-> {}]
  /\ minCheckpoint = 1
  /\ eventTable[1] = "deleted"
  /\ eventTable[2] = "visible"

\* C18: when every registered consumer keeps being ticked and its processing
\* eventually succeeds, every committed event is eventually deleted from the log.
LogEventuallyTruncated ==
  \A id \in Ids : (eventTable[id] = "visible") ~> (eventTable[id] = "deleted")

----------------------------------------------------------------------------
\* CronBackoff

\* A tick that the backoff suppressed.
IsSuppressedTick == cronState = "waiting" /\ cronState' = "waiting" /\ now' # now

\* run() returns from an executed tick whose scan found no event.
IsIdleReturn == pc["jb"] = "upserted" /\ pc'["jb"] = "idle"

\* run() returns from an executed tick that handled at least one event.
IsProductiveReturn == IsTruncate("jb") /\ done["jb"] >= 1

\* C19: at every idle tick, suppressed or executed without work, attempts
\* increases as long as it is below the table cap, and a tick that did work
\* sets attempts to 0.
BackoffMonotone ==
  [][/\ ((IsSuppressedTick \/ IsIdleReturn) /\ attempts < TableLen - 1) =>
          attempts' > attempts
     /\ IsProductiveReturn => attempts' = 0]_vars

\* C20: attempts stays within 0 .. tableLen - 1.
AttemptsCapped == attempts >= 0 /\ attempts <= TableLen - 1

\* C21: after an executed tick whose scan returned a non-empty batch and that
\* handled an event of it, attempts is 0 and the reference timestamp is the
\* current time, also when the truncation of that tick removed no row.
ProductiveTickResets ==
  [][IsProductiveReturn => (attempts' = 0 /\ triggeredAt' = now)]_vars

\* C22: after an executed tick that did no real work, attempts is incremented
\* by one and the reference timestamp is left unchanged.
IdleTickKeepsTimestamp ==
  [][IsIdleReturn => (attempts' = attempts + 1 /\ triggeredAt' = triggeredAt)]_vars

\* Math.floor(duration / 2 + Math.random() * duration) stays below 1.5 times
\* the last entry of the table.
MaxWindow == (3 * durations[TableLen - 1]) \div 2

\* C23: no tick is suppressed once the longest jittered window (below 1.5 x
\* the last table entry) has passed since the reference timestamp, so under
\* the fixed-rate ticker the work function is executed again within that time.
BoundedSuppression ==
  [][IsSuppressedTick => now' < triggeredAt + MaxWindow]_vars

\* C23 witness: after ticks suppressed up to the capped window, the tick at the
\* end of the longest window calls the work function.
BoundedSuppressionWitness ==
  /\ cronState = "running"
  /\ attempts > TableLen
  /\ now + TickPeriod >= triggeredAt + MaxWindow

\* C24: a suppressed tick does not invoke the work function, issues no store
\* operation and leaves the reference timestamp alone; only attempts changes.
SuppressedTickIsNoop ==
  [][IsSuppressedTick =>
       /\ attempts' = attempts + 1
       /\ UNCHANGED <<triggeredAt, cronState, pc, nextId, eventTable,
                      consumerTable, rowLock>>]_vars

\* C24 witness: a tick was suppressed while a committed event that john has
\* not yet scanned was in the log.
SuppressedTickIsNoopWitness ==
  /\ cronState = "waiting"
  /\ attempts >= 2
  /\ now > triggeredAt
  /\ pc["jb"] = "idle"
  /\ Visible # {}
  /\ consumerTable["john"].checkpoint = 0

\* C25: a store error during a tick leaves the persisted checkpoints as they
\* are (no partial write), and the backoff counts the tick as non-productive:
\* attempts is incremented and the scheduler waits for its next tick.
StoreErrorAbortsTick ==
  [][\A i \in Scheduled :
       RunFail(i) =>
         /\ consumerTable' = consumerTable
         /\ i = "jb" => (attempts' = attempts + 1 /\ cronState' = "waiting")]_vars

----------------------------------------------------------------------------
\* Crash and restart

\* C26: when the process crashes during a tick, every event of the batch it
\* was working on that lies above its persisted checkpoint is still in the log,
\* so that the scan after the restart (id > checkpoint) returns it again.
CrashResume ==
  [][\A i \in Single :
       Crash(i) =>
         \A k \in 1..Len(events[i]) :
           events[i][k] > consumerTable[NameOf(i)].checkpoint =>
             eventTable[events[i][k]] = "visible"]_vars

----------------------------------------------------------------------------
\* Repository contracts

\* C27: upsert(name) creates the row with checkpoint 0 and the wildcard topic
\* when it is absent; on an existing row, whatever its checkpoint and topics
\* have become, it changes neither; it touches no other row and returns the
\* row as it is after the call.
UpsertIdempotent ==
  [][\A n \in Names :
       ApiUpsert(n) =>
         /\ consumerTable[n] = NoRow =>
              consumerTable'[n] = [checkpoint |-> 0, topics |-> {"*"}]
         /\ consumerTable[n] # NoRow => consumerTable'[n] = consumerTable[n]
         /\ \A m \in Names \ {n} : consumerTable'[m] = consumerTable[m]
         /\ ret'.val = consumerTable'[n].checkpoint
         /\ ret'.topics = consumerTable'[n].topics
         /\ eventTable' = eventTable]_vars

\* C27 witness: upsert("john") called after john's checkpoint was advanced to
\* 2 and his topics were narrowed returned that row unchanged.
UpsertIdempotentWitness ==
  /\ ret = [op |-> "upsert", arg |-> 0, kind |-> "value", val |-> 2,
            topics |-> {"order_created"}]
  /\ consumerTable["john"] = [checkpoint |-> 2, topics |-> {"order_created"}]
  /\ consumerTable["alice"] = [checkpoint |-> 0, topics |-> {"*"}]

\* The step of instance i that runs the upsert at the start of run().
IsUpsertStep(i) == pc[i] = "idle" /\ pc'[i] = "upserted"

\* The step in which run() of instance i finds no event and returns.
IsIdle(i) == pc[i] = "upserted" /\ pc'[i] = "idle"

\* C28: a tick whose scan returns no event reports false and writes nothing:
\* neither its upsert nor its return changes the log or the checkpoint or
\* topics of any existing consumer row, and no row lock is taken.
IdleTickChangesNothing ==
  [][\A i \in Instances :
       /\ IsIdle(i) =>
            /\ eventTable' = eventTable
            /\ consumerTable' = consumerTable
            /\ rowLock' = rowLock
            /\ i = "jb" => executed' = False
       /\ IsUpsertStep(i) =>
            /\ eventTable' = eventTable
            /\ \A n \in Registered : consumerTable'[n] = consumerTable[n]]_vars

\* C28 witness: john's tick returned false while event 1, which he has
\* checkpointed and alice has not, was in the log.
IdleTickChangesNothingWitness ==
  /\ executed = False
  /\ pc["jb"] = "idle"
  /\ consumerTable["john"].checkpoint = 1
  /\ consumerTable["alice"].checkpoint = 0
  /\ eventTable[1] = "visible"

\* C29: updateLastCheckpoint(name, v) returns true exactly when a row of that
\* name exists and then leaves its checkpoint equal to v; it never creates a
\* row, changes no other row, no topics and no event, and a call with the value
\* the row already holds changes nothing.
AdvanceCheckpointRepeatable ==
  [][\A n \in Names, v \in 0..MaxEvents :
       ApiUpdateLastCheckpoint(n, v) =>
         /\ ret'.val = (IF consumerTable[n] # NoRow THEN 1 ELSE 0)
         /\ consumerTable[n] = NoRow => consumerTable' = consumerTable
         /\ consumerTable[n] # NoRow =>
              consumerTable'[n] = [consumerTable[n] EXCEPT !.checkpoint = v]
         /\ (consumerTable[n] # NoRow /\ consumerTable[n].checkpoint = v) =>
              consumerTable' = consumerTable
         /\ \A m \in Names \ {n} : consumerTable'[m] = consumerTable[m]
         /\ eventTable' = eventTable
         /\ rowLock' = rowLock]_vars

\* C29 witness: updateLastCheckpoint("john", 2) returned true with john's
\* checkpoint at 2 while alice's row keeps the checkpoint 1 written before.
AdvanceCheckpointRepeatableWitness ==
  /\ ret = [op |-> "updateLastCheckpoint", arg |-> 2, kind |-> "value", val |-> 1,
            topics |-> {}]
  /\ consumerTable["john"].checkpoint = 2
  /\ consumerTable["alice"].checkpoint = 1

----------------------------------------------------------------------------
\* batch(): concurrent invocations

\* Invocation w of batch() has handled every event of its SELECT, the last of
\* them lastId[w], and has not yet committed.
InBatch(w) == wpc[w] \in {"bdelete", "bcommit"} /\ lastId[w] # 0

\* C30: two invocations of batch() in flight at the same time have not handled
\* the same event; in particular the last event each of them handled differs.
BatchExclusive ==
  \A w \in Workers, v \in Workers :
    (w # v /\ InBatch(w) /\ InBatch(v)) => lastId[w] # lastId[v]

----------------------------------------------------------------------------
\* Topic filter

\* C31: the checker built from a consumer row answers true for every event
\* type when the row's topics contain "*", otherwise exactly for the event
\* types that are members of topics; the call changes nothing in the store.
TopicCheckerMatches ==
  [][\A n \in Names, k \in 1..Len(EventTypes) :
       ApiCheckTopic(n, k) =>
         LET topics == consumerTable[n].topics
         IN  /\ "*" \in topics => ret'.val = 1
             /\ "*" \notin topics => (ret'.val = 1 <=> EventTypes[k] \in topics)
             /\ UNCHANGED <<consumerTable, eventTable>>]_vars

\* C31 witness: a row subscribed to two topics without the wildcard was asked
\* about an event type outside its topics and answered false.
TopicCheckerMatchesWitness ==
  /\ ret = [op |-> "checkTopic", arg |-> 3, kind |-> "value", val |-> 0,
            topics |-> {"person_created", "order_created"}]
  /\ consumerTable["john"].topics = {"person_created", "order_created"}

\* C32: every event batch() has deleted was passed to handle, which returned,
\* before the DELETE; this includes events that become visible with an id
\* <= lastId after the SELECT and events after a failing one.
BatchDeletesOnlyHandled ==
  \A id \in Ids : eventTable[id] = "deleted" => id \in handled

\* C33: the event stream() hands to the handler is the row it claimed and then
\* deletes, also when stream() was called with no argument (the fallback
\* sweep).
HandlerGetsClaimedRow ==
  [][\A w \in Workers : HandleOk(w) => arg[w] = storedEvent[w]]_vars

\* Invocation w of stream() ends its transaction: COMMIT or ROLLBACK.
EndsTransaction(w) == Commit(w) \/ CommitEmpty(w) \/ Rollback(w)

\* C34: a COMMIT or ROLLBACK issued by one invocation neither releases the row
\* lock nor commits or discards the DELETE of another invocation that is still
\* in flight, also when both use the same db client.
TransactionsIsolated ==
  [][\A w \in Workers, v \in Workers :
       (w # v /\ EndsTransaction(w) /\ wpc[v] \in {"claimed", "delete", "commit"}) =>
         /\ evLock'[storedEvent[v]] = evLock[storedEvent[v]]
         /\ eventTable'[storedEvent[v]] = eventTable[storedEvent[v]]]_vars

----------------------------------------------------------------------------
\* Overlapping ticks

\* C35: a CronBackoff never starts its work function while an earlier
\* invocation by the same instance is still in flight: the two invocations of
\* the scheduled john are never in flight together.
TicksDoNotOverlap ==
  ~(cronState = "running" /\ pc["jc"] # "idle")

----------------------------------------------------------------------------
\* Redundant notifications

\* handle(event) has returned in invocation w, which has not ended yet.
PastHandler(w) == wpc[w] \in {"delete", "commit"} /\ arg[w] # 0

\* C36: redundant notifications are harmless: no event is handled by two
\* invocations of stream(), in runs without a crash or a handler failure.
HandledOnce ==
  \A w \in Workers, v \in Workers :
    (w # v /\ PastHandler(w) /\ PastHandler(v)) => arg[w] # arg[v]

----------------------------------------------------------------------------
\* Redis stream mirror

\* C37: sendEventToRedisStream deletes an event from the event table only
\* after xadd succeeded for it: every deleted event is an entry of the stream.
MirrorLosesNoEvent ==
  \A id \in Ids : eventTable[id] = "deleted" => id \in Range(mystream)

\* The step of redisConsumerGroup that reads the stream and performs the work.
IsConsume == consumePc = "xrange" /\ consumePc' = "persist"

\* C38: the Redis-stream consumer performs work at most once per event id: in
\* a tick no work is performed for an event whose id is <= the persisted
\* last_event_id, and the persisted last_event_id never decreases.
WorkAtMostOnce ==
  /\ [](\A id \in Ids : performed[id] <= 1)
  /\ [][/\ IsConsume =>
             \A id \in Ids :
               performed'[id] > performed[id] => id > redisConsumer.last_event_id
        /\ redisConsumer'.last_event_id >= redisConsumer.last_event_id]_vars

====
